---- MODULE Spec2Model ----
(***************************************************************************)
(* The availability scheduler of src/src/App.js: the owner's calendar      *)
(* (App), its schedule form and the snapshot callback that builds the day  *)
(* list and the month indicator map.                                       *)
(*                                                                         *)
(* Time.  An instant (a JavaScript Date) is a whole number of hours since  *)
(* 2024-03-01T00:00Z.  A date string 'YYYY-MM-DD' is the number of the day *)
(* it names (day 0 = 2024-03-01, day 9 = 2024-03-10, day 31 = 2024-04-01): *)
(* two date strings are equal exactly when their day numbers are.  The     *)
(* browser's time zone is a fixed offset tz (local = UTC + tz hours).      *)
(* An optional value ('' or null in the code) is the empty sequence, a     *)
(* present one is a one-element sequence.                                  *)
(***************************************************************************)
EXTENDS Integers, Sequences, FiniteSets, TLC

\* ------------------------------------------------------------- bounds
\* Most documents the schedule collection holds in a calendar run.
MaxEntries == 2
\* Most documents the schedule collection holds in a form run.
MaxFormEntries == 1
\* Last month the calendar is moved to (0 = March 2024, 1 = April 2024).
MaxMonth == 1
\* Most documents the schedule collection holds in a run on activities and profile.
MaxOwnerEntries == 1
\* Most documents the schedule collection holds when a run with the share page starts.
MaxSharedEntries == 2
\* Most documents the schedule collection holds in a run on the stored scenarios.
MaxScenarioEntries == 2

\* Offsets of the browser's time zone: New York (standard), UTC, Tokyo.
TzOffsets == {-5, 0, 9}
\* The instant the page is opened: 2024-03-10T02:00Z.
Now == 218
\* Days of the month the owner clicks in the calendar grid.
ClickDays == {5, 10}
\* Weekdays the owner toggles (0 = Sunday, 2 = Tuesday).
WeekdayInputs == {0, 2}
\* Values typed in the form's time and date inputs.
StartTimeInputs == {<<>>, <<9>>, <<10>>}
EndTimeInputs == {<<10>>}
RecurrenceStartInputs == {<<>>, <<4>>, <<9>>}
RecurrenceEndInputs == {<<>>, <<4>>}
\* Identifiers the store gives to new schedule documents.
EntryIds == 1..MaxEntries
FormEntryIds == 1..MaxFormEntries
OwnerEntryIds == 1..MaxOwnerEntries
\* What the owner types for a new activity, and the identifier the store gives it.
NewActivityInputs == { [name |-> "Rest", color |-> "green"] }
NewActivityIds == {"a3"}
\* The day of the month the owner clicks in a run on activities and profile.
OwnerClickDays == {10}
\* The days of the month the owner clicks in a run on the stored scenarios: the
\* first of the month and 4 March, a Monday.
ScenarioClickDays == {1, 4}
\* The zone the owner picks in the time zone select.
TimeZoneInputs == {"Europe/Paris"}

\* The activities the owner defined in an earlier session.
StoredActivities ==
    << [id |-> "a1", name |-> "Work", color |-> "red"],
       [id |-> "a2", name |-> "Gym", color |-> "blue"] >>

\* The time zones of the owner's select that the model uses, with their offsets.
TimeZoneNames == {"America/New_York", "Europe/Paris", "Asia/Tokyo", "UTC"}
ZoneOffset(zone) ==
    CASE zone = "America/New_York" -> -5
      [] zone = "Europe/Paris" -> 1
      [] zone = "Asia/Tokyo" -> 9
      [] OTHER -> 0

\* The owner's identifier.
OwnerId == "u1"

\* ------------------------------------------------------------- messages
NoError == "null"
ErrMissing == "Please select a date, activity, start time, and end time."
ErrEndTime == "End time must be after start time."
ErrNoStart == "Please provide a start date for the repeating schedule."
ErrEndBeforeStart == "Recurrence end date cannot be before start date."
ErrNoDays == "Please select at least one day for weekly recurrence."
ErrNoActivity == "Selected activity not found."
ErrAddFailed == "Failed to add schedule entry."
ErrDeleteFailed == "Failed to delete schedule entry."
ErrActivityEmpty == "Activity name and color cannot be empty."
ErrAddActivityFailed == "Failed to add activity."
ErrDeleteActivityFailed == "Failed to delete activity."
ErrTimeZoneFailed == "Failed to update time zone."
ErrInvalidShareLink == "Invalid share link. User ID or date is missing."
ErrSharedUserData == "Failed to load shared user data."

VARIABLES
    tz,                         \* offset of the browser's time zone, hours
    activityItems,              \* App state: list of activities
    schedules,                  \* the schedules collection: set of documents
    newScheduleActivityId,      \* form: selected activity id, "" when none
    newScheduleRecurrenceType,  \* form: "none", "daily", "weekly"
    newScheduleRecurrenceDays,  \* form: ascending list of weekdays
    currentMonth,               \* App state: a Date in the displayed month
    selectedDate,               \* App state: the selected Date
    pending,                    \* the schedule listener has a snapshot to deliver
    scheduleEntries,            \* App state: day list of the selected date
    monthlyScheduleData,        \* App state: Map date string -> color
    error,                      \* App state: error message or null
    activities,                 \* the activityItems collection, in document order
    userTimeZone,               \* App state: the owner's time zone preference
    profileTimeZone,            \* the profile document's timeZone field
    shareLink,                  \* App state: query of the generated link, <<>> when none
    locationSearch,             \* query of the share page's URL, <<>> while not open
    sharedUserId,               \* ShareView state: owner identifier or null
    sharedDate,                 \* ShareView state: the Date of the link or null
    sharedUserTimeZone,         \* ShareView state: the owner's time zone
    sharedScheduleEntries,      \* ShareView state: day list of the shared date
    loadingShare,               \* ShareView state
    shareError,                 \* ShareView state: error message or null
    shareListening,             \* the share page's listener is subscribed
    sharePending,               \* the share page's listener has a snapshot to deliver
    shareMounted,               \* ShareView is mounted
    scheduleListeners           \* App: the closures of the subscribed schedule listeners

\* The state of the owner's page that the calendar and the form do not touch.
ownerVars == << activities, userTimeZone, profileTimeZone, shareLink >>

\* The state of the share page but for the snapshot it awaits.
shareState == << locationSearch, sharedUserId, sharedDate, sharedUserTimeZone,
                 sharedScheduleEntries, loadingShare, shareError, shareListening,
                 shareMounted >>

shareVars == << shareState, sharePending >>

\* The state of the calendar, the form and the schedule store.
appVars == << tz, activityItems, schedules, newScheduleActivityId,
              newScheduleRecurrenceType, newScheduleRecurrenceDays, currentMonth,
              selectedDate, pending, scheduleEntries, monthlyScheduleData, error >>

vars == << appVars, ownerVars, shareVars, scheduleListeners >>

\* ------------------------------------------------------------- Date
\* First day of month m (-1 = February 2024 .. 5 = August 2024).
MonthFirstDay(m) ==
    CASE m = -1 -> -29
      [] m = 0 -> 0
      [] m = 1 -> 31
      [] m = 2 -> 61
      [] m = 3 -> 92
      [] m = 4 -> 122
      [] OTHER -> 153

\* The month (and year) a day lies in.
MonthOfDay(d) == CHOOSE m \in -1..4 : MonthFirstDay(m) <= d /\ d < MonthFirstDay(m + 1)

\* date.toISOString().split('T')[0]: the UTC day of an instant.
ToISODate(x) == x \div 24

\* The local calendar day of an instant (getFullYear, getMonth, getDate).
LocalDay(x) == (x + tz) \div 24

\* new Date(year, month, day): local midnight of a calendar day.
LocalMidnight(d) == 24 * d - tz

\* new Date('YYYY-MM-DD'): a date-only string is read as UTC midnight.
ParseDate(d) == 24 * d

\* new Date('YYYY-MM-DDTHH:MM:00'): a date-time string is read as local time.
ParseLocalDateTime(d, h) == 24 * d + h - tz

\* As GetDay with the weekday of the UTC day (getUTCDay).
GetDay_UTC(x) == (ToISODate(x) + 5) % 7

\* date.getDay(): weekday of the local day, 0 = Sunday (2024-03-01 is a Friday).
GetDay(x) == (LocalDay(x) + 5) % 7

\* date.getMonth() together with date.getFullYear().
GetMonth(x) == MonthOfDay(LocalDay(x))

\* Intl.DateTimeFormat().resolvedOptions().timeZone
BrowserTimeZone == CHOOSE zone \in TimeZoneNames : ZoneOffset(zone) = tz

\* formatTime(date, timeZone): the hour of the instant on the clock of the zone.
formatTime(date, timeZone) == (date + ZoneOffset(timeZone)) % 24

\* array.includes(v)
Includes(s, v) == \E i \in 1..Len(s) : s[i] = v

\* ------------------------------------------------------------- helpers
\* The empty Map.
EmptyMap == [k \in {} |-> ""]

\* After map.set(k, color) for every k of keys.
MapSetAll(map, keys, color) ==
    [k \in (DOMAIN map) \cup keys |-> IF k \in keys THEN color ELSE map[k]]

\* snapshot.docs: the documents of a collection in the order the store delivers them.
SnapshotOrders(docs) ==
    { s \in [1..Cardinality(docs) -> docs] :
        \A i, j \in 1..Cardinality(docs) : i # j => s[i] # s[j] }

\* array.filter(keep) for the indicator keep over the elements of s.
RECURSIVE FilterSeq(_, _)
FilterSeq(s, keep) ==
    IF s = <<>> THEN <<>>
    ELSE IF Head(s) \in keep THEN <<Head(s)>> \o FilterSeq(Tail(s), keep)
    ELSE FilterSeq(Tail(s), keep)

\* One step of the stable sort: e goes behind every element that does not start later.
InsertByStart(sorted, e) ==
    LET before == { i \in 1..Len(sorted) : sorted[i].startDateTimeUTC <= e.startDateTimeUTC }
        n == Cardinality(before)
    IN  SubSeq(sorted, 1, n) \o <<e>> \o SubSeq(sorted, n + 1, Len(sorted))

\* entries.sort((a, b) => new Date(a.startDateTimeUTC) - new Date(b.startDateTimeUTC)):
\* Array.prototype.sort is stable, elements that compare equal keep their order.
RECURSIVE SortByStart(_)
SortByStart(s) ==
    IF s = <<>> THEN <<>>
    ELSE InsertByStart(SortByStart(SubSeq(s, 1, Len(s) - 1)), s[Len(s)])

\* ------------------------------------------------------------- aggregation
\* isDateWithinRecurrenceRange(dateToCheck) of one entry.
IsDateWithinRecurrenceRange(entry, dateToCheck) ==
    LET dateOnly == LocalMidnight(LocalDay(dateToCheck))
    IN  /\ (entry.recurrenceStartDate = <<>>
            \/ dateOnly >= ParseDate(entry.recurrenceStartDate[1]))
        /\ (entry.recurrenceEndDate = <<>>
            \/ dateOnly <= ParseDate(entry.recurrenceEndDate[1]))

\* new Date(currentMonth.getFullYear(), currentMonth.getMonth(), 1)
CurrentMonthStartDate(month) == LocalMidnight(MonthFirstDay(GetMonth(month)))

\* new Date(currentMonth.getFullYear(), currentMonth.getMonth() + 1, 0)
CurrentMonthEndDate(month) == LocalMidnight(MonthFirstDay(GetMonth(month) + 1) - 1)

\* new Date(entry.date) lies in the displayed month.
EntryDateInMonth(entry, month) == GetMonth(ParseDate(entry.date)) = GetMonth(month)

\* isRelevantForMonth: && binds tighter than ||, so the test on the month's last
\* day and the containment test stand alone.  A null bound compares as 0 (1970).
IsRelevantForMonth(entry, month) ==
    \/ (entry.recurrenceType = "none" /\ EntryDateInMonth(entry, month))
    \/ (entry.recurrenceType # "none"
        /\ IsDateWithinRecurrenceRange(entry, CurrentMonthStartDate(month)))
    \/ IsDateWithinRecurrenceRange(entry, CurrentMonthEndDate(month))
    \/ ( /\ (entry.recurrenceStartDate = <<>>
             \/ CurrentMonthStartDate(month) >= ParseDate(entry.recurrenceStartDate[1]))
         /\ entry.recurrenceEndDate # <<>>
         /\ CurrentMonthEndDate(month) <= ParseDate(entry.recurrenceEndDate[1]) )

\* The keys one entry sets in datesWithActivities.
EntryDotKeys(entry, month) ==
    IF ~ IsRelevantForMonth(entry, month) THEN {}
    ELSE IF entry.recurrenceType = "none"
    THEN (IF EntryDateInMonth(entry, month) THEN {entry.date} ELSE {})
    ELSE { ToISODate(LocalMidnight(d)) :
             d \in { t \in MonthFirstDay(GetMonth(month))..(MonthFirstDay(GetMonth(month) + 1) - 1) :
                       /\ IsDateWithinRecurrenceRange(entry, LocalMidnight(t))
                       /\ \/ entry.recurrenceType = "daily"
                          \/ (entry.recurrenceType = "weekly"
                              /\ Includes(entry.recurrenceDays, GetDay(LocalMidnight(t)))) } }

\* datesWithActivities after allEntries.forEach, each entry overwriting the keys it sets.
RECURSIVE DatesWithActivities(_, _, _)
DatesWithActivities(allEntries, month, map) ==
    IF allEntries = <<>> THEN map
    ELSE DatesWithActivities(Tail(allEntries), month,
             MapSetAll(map, EntryDotKeys(Head(allEntries), month), Head(allEntries).activityColor))

\* The selected-date test of the owner's view.
MatchesSelectedDate(entry, date) ==
    /\ IsDateWithinRecurrenceRange(entry, date)
    /\ \/ (entry.recurrenceType = "none" /\ entry.date = ToISODate(date))
       \/ entry.recurrenceType = "daily"
       \/ (entry.recurrenceType = "weekly"
           /\ "recurrenceDays" \in DOMAIN entry
           /\ Includes(entry.recurrenceDays, GetDay(date)))

\* The month loop reads entry.recurrenceDays.includes of a weekly entry on the first
\* day of the month that lies in its window: a TypeError when the document has no
\* recurrenceDays field.
MonthLoopThrows(entry, month) ==
    /\ entry.recurrenceType = "weekly"
    /\ "recurrenceDays" \notin DOMAIN entry
    /\ IsRelevantForMonth(entry, month)
    /\ \E t \in MonthFirstDay(GetMonth(month))..(MonthFirstDay(GetMonth(month) + 1) - 1) :
          IsDateWithinRecurrenceRange(entry, LocalMidnight(t))

\* The forEach of the schedule callback ends in an exception.
SnapshotThrows(allEntries, month) ==
    \E i \in 1..Len(allEntries) : MonthLoopThrows(allEntries[i], month)

\* entriesForSelectedDate, sorted.
EntriesForSelectedDate(allEntries, date) ==
    SortByStart(FilterSeq(allEntries,
        { e \in { allEntries[i] : i \in 1..Len(allEntries) } : MatchesSelectedDate(e, date) }))

\* ------------------------------------------------------------- schedule form
\* The form as handleAddScheduleEntry reads it: the three fields kept as variables
\* and the values of the two time inputs and the two date inputs.
CurrentForm(startTime, endTime, recStart, recEnd) ==
    [ activityId |-> newScheduleActivityId,
      recurrenceType |-> newScheduleRecurrenceType,
      recurrenceDays |-> newScheduleRecurrenceDays,
      startTime |-> startTime,
      endTime |-> endTime,
      recurrenceStartDate |-> recStart,
      recurrenceEndDate |-> recEnd ]

\* As EndNotAfterStart with > for >=: equal times pass.
EndNotAfterStart_Strict(form) ==
    ParseLocalDateTime(ToISODate(selectedDate), form.startTime[1])
        > ParseLocalDateTime(ToISODate(selectedDate), form.endTime[1])

\* startDateTimeLocal >= endDateTimeLocal, both read on the selected date's string.
EndNotAfterStart(form) ==
    ParseLocalDateTime(ToISODate(selectedDate), form.startTime[1])
        >= ParseLocalDateTime(ToISODate(selectedDate), form.endTime[1])

\* As RecurrenceStartMissing with the test made for 'weekly' only.
RecurrenceStartMissing_WeeklyOnly(form) ==
    form.recurrenceType = "weekly" /\ form.recurrenceStartDate = <<>>

\* A repeating entry has no start date.
RecurrenceStartMissing(form) ==
    form.recurrenceType # "none" /\ form.recurrenceStartDate = <<>>

\* As RecurrenceEndBeforeStart with >= for >: a one-day window is rejected.
RecurrenceEndBeforeStart_OrEqual(form) ==
    /\ form.recurrenceType # "none"
    /\ form.recurrenceEndDate # <<>>
    /\ form.recurrenceStartDate # <<>>
    /\ ParseDate(form.recurrenceStartDate[1]) >= ParseDate(form.recurrenceEndDate[1])

\* new Date(start) > new Date(end) when an end date is given; the Invalid Date of
\* an empty string compares false.
RecurrenceEndBeforeStart(form) ==
    /\ form.recurrenceType # "none"
    /\ form.recurrenceEndDate # <<>>
    /\ form.recurrenceStartDate # <<>>
    /\ ParseDate(form.recurrenceStartDate[1]) > ParseDate(form.recurrenceEndDate[1])

\* As WeeklyDaysMissing with the test made for 'daily' instead of 'weekly'.
WeeklyDaysMissing_DailyOnly(form) ==
    form.recurrenceType = "daily" /\ Len(form.recurrenceDays) = 0

\* A weekly entry has no weekday selected.
WeeklyDaysMissing(form) ==
    form.recurrenceType = "weekly" /\ Len(form.recurrenceDays) = 0

\* The checks of handleAddScheduleEntry in their order: the message of the first
\* one that fails, or null.
AddValidationError(form) ==
    IF form.activityId = "" \/ form.startTime = <<>> \/ form.endTime = <<>>
    THEN ErrMissing
    ELSE IF EndNotAfterStart(form)
    THEN ErrEndTime
    ELSE IF RecurrenceStartMissing(form)
    THEN ErrNoStart
    ELSE IF RecurrenceEndBeforeStart(form)
    THEN ErrEndBeforeStart
    ELSE IF WeeklyDaysMissing(form)
    THEN ErrNoDays
    ELSE IF ~ \E i \in 1..Len(activityItems) : activityItems[i].id = form.activityId
    THEN ErrNoActivity
    ELSE NoError

\* As SelectedActivity with the first listed activity taken whatever the form's id.
SelectedActivity_First(form) == activityItems[1]

\* activityItems.find(item => item.id === newScheduleActivityId)
SelectedActivity(form) ==
    activityItems[CHOOSE i \in 1..Len(activityItems) :
                    /\ activityItems[i].id = form.activityId
                    /\ \A j \in 1..(i - 1) : activityItems[j].id # form.activityId]

\* As NewScheduleDoc with the weekday list left out for every recurrence type.
NewScheduleDoc_DaysDropped(id, form) ==
    [ id |-> id,
      date |-> ToISODate(selectedDate),
      startDateTimeUTC |-> ParseLocalDateTime(ToISODate(selectedDate), form.startTime[1]),
      endDateTimeUTC |-> ParseLocalDateTime(ToISODate(selectedDate), form.endTime[1]),
      activityId |-> form.activityId,
      activityName |-> SelectedActivity(form).name,
      activityColor |-> SelectedActivity(form).color,
      recurrenceType |-> form.recurrenceType,
      recurrenceDays |-> <<>>,
      recurrenceStartDate |-> IF form.recurrenceType # "none"
                              THEN form.recurrenceStartDate ELSE <<>>,
      recurrenceEndDate |-> IF form.recurrenceType # "none"
                            THEN form.recurrenceEndDate ELSE <<>> ]

\* The document handleAddScheduleEntry hands to addDoc.
NewScheduleDoc(id, form) ==
    [ id |-> id,
      date |-> ToISODate(selectedDate),
      startDateTimeUTC |-> ParseLocalDateTime(ToISODate(selectedDate), form.startTime[1]),
      endDateTimeUTC |-> ParseLocalDateTime(ToISODate(selectedDate), form.endTime[1]),
      activityId |-> form.activityId,
      activityName |-> SelectedActivity(form).name,
      activityColor |-> SelectedActivity(form).color,
      recurrenceType |-> form.recurrenceType,
      recurrenceDays |-> IF form.recurrenceType = "weekly" THEN form.recurrenceDays ELSE <<>>,
      recurrenceStartDate |-> IF form.recurrenceType # "none"
                              THEN form.recurrenceStartDate ELSE <<>>,
      recurrenceEndDate |-> IF form.recurrenceType # "none"
                            THEN form.recurrenceEndDate ELSE <<>> ]

\* handleAddScheduleEntry on the form; the button is disabled while there is no
\* activity.  id is the identifier the store picks, stored tells whether addDoc
\* succeeds.  A rejected or failed attempt leaves the form as it is, a stored one
\* resets it.
handleAddScheduleEntry(form, id, stored) ==
    LET err == AddValidationError(form)
    IN  /\ Len(activityItems) > 0
        /\ id \notin { d.id : d \in schedules }
        /\ IF err # NoError
           THEN /\ error' = err
                /\ UNCHANGED << schedules, pending, newScheduleActivityId,
                                newScheduleRecurrenceType, newScheduleRecurrenceDays >>
           ELSE IF ~ stored
           THEN /\ error' = ErrAddFailed
                /\ UNCHANGED << schedules, pending, newScheduleActivityId,
                                newScheduleRecurrenceType, newScheduleRecurrenceDays >>
           ELSE /\ schedules' = schedules \cup { NewScheduleDoc(id, form) }
                /\ pending' = TRUE
                /\ newScheduleActivityId' = activityItems[1].id
                /\ newScheduleRecurrenceType' = "none"
                /\ newScheduleRecurrenceDays' = <<>>
                /\ UNCHANGED error
        /\ sharePending' = (sharePending \/ (shareListening /\ schedules' # schedules))
        /\ UNCHANGED << tz, activityItems, currentMonth, selectedDate,
                        scheduleEntries, monthlyScheduleData >>
        /\ UNCHANGED << ownerVars, shareState, scheduleListeners >>

\* As handleDeleteScheduleEntry with the document kept and marked instead of removed.
handleDeleteScheduleEntry_SoftDelete(id, deleted) ==
    /\ \E i \in 1..Len(scheduleEntries) : scheduleEntries[i].id = id
    /\ IF deleted
       THEN /\ schedules' = { IF d.id = id THEN [d EXCEPT !.recurrenceType = "deleted"] ELSE d :
                                d \in schedules }
            /\ pending' = (pending \/ schedules' # schedules)
            /\ UNCHANGED error
       ELSE /\ error' = ErrDeleteFailed
            /\ UNCHANGED << schedules, pending >>
    /\ sharePending' = (sharePending \/ (shareListening /\ schedules' # schedules))
    /\ UNCHANGED << tz, activityItems, newScheduleActivityId, newScheduleRecurrenceType,
                    newScheduleRecurrenceDays, currentMonth, selectedDate,
                    scheduleEntries, monthlyScheduleData >>
    /\ UNCHANGED << ownerVars, shareState, scheduleListeners >>

\* handleDeleteScheduleEntry(id), from the Delete button of a listed entry.
handleDeleteScheduleEntry(id, deleted) ==
    /\ \E i \in 1..Len(scheduleEntries) : scheduleEntries[i].id = id
    /\ IF deleted
       THEN /\ schedules' = { d \in schedules : d.id # id }
            /\ pending' = (pending \/ schedules' # schedules)
            /\ UNCHANGED error
       ELSE /\ error' = ErrDeleteFailed
            /\ UNCHANGED << schedules, pending >>
    /\ sharePending' = (sharePending \/ (shareListening /\ schedules' # schedules))
    /\ UNCHANGED << tz, activityItems, newScheduleActivityId, newScheduleRecurrenceType,
                    newScheduleRecurrenceDays, currentMonth, selectedDate,
                    scheduleEntries, monthlyScheduleData >>
    /\ UNCHANGED << ownerVars, shareState, scheduleListeners >>

\* onChange of the recurrence type select.
SelectRecurrenceType(type) ==
    /\ newScheduleRecurrenceType' = type
    /\ newScheduleRecurrenceDays' =
           (IF type # "weekly" THEN <<>> ELSE newScheduleRecurrenceDays)
    /\ UNCHANGED << tz, activityItems, schedules, newScheduleActivityId, currentMonth,
                    selectedDate, pending, scheduleEntries, monthlyScheduleData, error >>
    /\ UNCHANGED << ownerVars, shareVars, scheduleListeners >>

\* As InsertDay without the sort: the day goes to the end of the list.
InsertDay_Unsorted(prevDays, dayIndex) == Append(prevDays, dayIndex)

\* [...prevDays, dayIndex].sort((a, b) => a - b)
InsertDay(prevDays, dayIndex) ==
    LET n == Cardinality({ i \in 1..Len(prevDays) : prevDays[i] <= dayIndex })
    IN  SubSeq(prevDays, 1, n) \o <<dayIndex>> \o SubSeq(prevDays, n + 1, Len(prevDays))

\* prevDays.filter(d => d !== dayIndex)
RemoveDay(prevDays, dayIndex) ==
    FilterSeq(prevDays, { prevDays[i] : i \in 1..Len(prevDays) } \ {dayIndex})

\* handleRecurrenceDayChange(dayIndex); the checkboxes are shown for 'weekly' only.
handleRecurrenceDayChange(dayIndex) ==
    /\ newScheduleRecurrenceType = "weekly"
    /\ newScheduleRecurrenceDays' =
           (IF Includes(newScheduleRecurrenceDays, dayIndex)
            THEN RemoveDay(newScheduleRecurrenceDays, dayIndex)
            ELSE InsertDay(newScheduleRecurrenceDays, dayIndex))
    /\ UNCHANGED << tz, activityItems, schedules, newScheduleActivityId,
                    newScheduleRecurrenceType, currentMonth, selectedDate, pending,
                    scheduleEntries, monthlyScheduleData, error >>
    /\ UNCHANGED << ownerVars, shareVars, scheduleListeners >>

\* The close button of the error banner: setError(null).
DismissError ==
    /\ error # NoError
    /\ error' = NoError
    /\ UNCHANGED << tz, activityItems, schedules, newScheduleActivityId,
                    newScheduleRecurrenceType, newScheduleRecurrenceDays, currentMonth,
                    selectedDate, pending, scheduleEntries, monthlyScheduleData >>
    /\ UNCHANGED << ownerVars, shareVars, scheduleListeners >>

\* ------------------------------------------------------------- calendar
\* What the callback of a schedule listener closes over.
Closure(date, month) == [selectedDate |-> date, currentMonth |-> month]

\* As ScheduleEffect without the cleanup: the listener of the earlier run stays
\* subscribed.
ScheduleEffect_NoCleanup(date, month) ==
    scheduleListeners \cup { Closure(date, month) }

\* The schedule effect runs again after a render with a new selected date or month:
\* the cleanup of the earlier run unsubscribes its listener, then onSnapshot
\* subscribes one whose callback closes over the new values.
ScheduleEffect(date, month) ==
    (scheduleListeners \ { Closure(selectedDate, currentMonth) })
        \cup { Closure(date, month) }

\* onClick of day i of the displayed month: setSelectedDate(dayDate).  The schedule
\* effect runs again and its new listener receives a snapshot.
ClickDay(i) ==
    /\ selectedDate' = LocalMidnight(MonthFirstDay(GetMonth(currentMonth)) + i - 1)
    /\ scheduleListeners' = ScheduleEffect(selectedDate', currentMonth)
    /\ pending' = TRUE
    /\ UNCHANGED << tz, activityItems, schedules, newScheduleActivityId,
                    newScheduleRecurrenceType, newScheduleRecurrenceDays, currentMonth,
                    scheduleEntries, monthlyScheduleData, error >>
    /\ UNCHANGED << ownerVars, shareVars >>

\* As changeMonth with the selected date left as it is.
changeMonth_KeepSelected(offset) ==
    /\ GetMonth(currentMonth) + offset \in 0..MaxMonth
    /\ currentMonth' = LocalMidnight(MonthFirstDay(GetMonth(currentMonth) + offset))
    /\ scheduleListeners' = ScheduleEffect(selectedDate, currentMonth')
    /\ pending' = TRUE
    /\ UNCHANGED << tz, activityItems, schedules, newScheduleActivityId,
                    newScheduleRecurrenceType, newScheduleRecurrenceDays, selectedDate,
                    scheduleEntries, monthlyScheduleData, error >>
    /\ UNCHANGED << ownerVars, shareVars >>

\* changeMonth(offset): the first day of the new month becomes the selected date.
changeMonth(offset) ==
    /\ GetMonth(currentMonth) + offset \in 0..MaxMonth
    /\ currentMonth' = LocalMidnight(MonthFirstDay(GetMonth(currentMonth) + offset))
    /\ selectedDate' = LocalMidnight(MonthFirstDay(GetMonth(currentMonth) + offset))
    /\ scheduleListeners' = ScheduleEffect(selectedDate', currentMonth')
    /\ pending' = TRUE
    /\ UNCHANGED << tz, activityItems, schedules, newScheduleActivityId,
                    newScheduleRecurrenceType, newScheduleRecurrenceDays,
                    scheduleEntries, monthlyScheduleData, error >>
    /\ UNCHANGED << ownerVars, shareVars >>

\* The activity listener's callback: the list of activities, and the first one as
\* the form's activity when none is selected.
ActivitySnapshot ==
    /\ activityItems # activities
    /\ activityItems' = activities
    /\ newScheduleActivityId' =
           (IF Len(activities) > 0 /\ newScheduleActivityId = ""
            THEN activities[1].id ELSE newScheduleActivityId)
    /\ UNCHANGED << tz, schedules, newScheduleRecurrenceType, newScheduleRecurrenceDays,
                    currentMonth, selectedDate, pending, scheduleEntries,
                    monthlyScheduleData, error >>
    /\ UNCHANGED << ownerVars, shareVars, scheduleListeners >>

\* As ScheduleSnapshot with the map of the last snapshot kept and written over.
ScheduleSnapshot_Merging(allEntries) ==
    /\ pending
    /\ pending' = FALSE
    /\ \E listener \in scheduleListeners :
          IF SnapshotThrows(allEntries, listener.currentMonth)
          THEN UNCHANGED << monthlyScheduleData, scheduleEntries >>
          ELSE /\ monthlyScheduleData' =
                      DatesWithActivities(allEntries, listener.currentMonth, monthlyScheduleData)
               /\ scheduleEntries' = EntriesForSelectedDate(allEntries, listener.selectedDate)
    /\ UNCHANGED << tz, activityItems, schedules, newScheduleActivityId,
                    newScheduleRecurrenceType, newScheduleRecurrenceDays, currentMonth,
                    selectedDate, error >>
    /\ UNCHANGED << ownerVars, shareVars, scheduleListeners >>

\* The callback of a subscribed schedule listener on a snapshot whose documents come
\* in the order allEntries; it reads the selected date and the month of its
\* closure.  An exception in the forEach ends the callback before the two setters:
\* the page keeps what it showed.
ScheduleSnapshot(allEntries) ==
    /\ pending
    /\ pending' = FALSE
    /\ \E listener \in scheduleListeners :
          IF SnapshotThrows(allEntries, listener.currentMonth)
          THEN UNCHANGED << monthlyScheduleData, scheduleEntries >>
          ELSE /\ monthlyScheduleData' =
                      DatesWithActivities(allEntries, listener.currentMonth, EmptyMap)
               /\ scheduleEntries' = EntriesForSelectedDate(allEntries, listener.selectedDate)
    /\ UNCHANGED << tz, activityItems, schedules, newScheduleActivityId,
                    newScheduleRecurrenceType, newScheduleRecurrenceDays, currentMonth,
                    selectedDate, error >>
    /\ UNCHANGED << ownerVars, shareVars, scheduleListeners >>

\* ------------------------------------------------------------- activities, profile
\* onChange of the activity select: one of the listed activities.
SelectActivity(id) ==
    /\ \E i \in 1..Len(activityItems) : activityItems[i].id = id
    /\ newScheduleActivityId' = id
    /\ UNCHANGED << tz, activityItems, schedules, newScheduleRecurrenceType,
                    newScheduleRecurrenceDays, currentMonth, selectedDate, pending,
                    scheduleEntries, monthlyScheduleData, error >>
    /\ UNCHANGED << ownerVars, shareVars, scheduleListeners >>

\* handleAddActivity with the typed name and color; id is the identifier the store
\* picks, stored tells whether addDoc succeeds.
handleAddActivity(name, color, id, stored) ==
    /\ \A i \in 1..Len(activities) : activities[i].id # id
    /\ IF name = "" \/ color = ""
       THEN error' = ErrActivityEmpty /\ UNCHANGED activities
       ELSE IF ~ stored
       THEN error' = ErrAddActivityFailed /\ UNCHANGED activities
       ELSE /\ activities' = Append(activities, [id |-> id, name |-> name, color |-> color])
            /\ UNCHANGED error
    /\ UNCHANGED << tz, activityItems, schedules, newScheduleActivityId,
                    newScheduleRecurrenceType, newScheduleRecurrenceDays, currentMonth,
                    selectedDate, pending, scheduleEntries, monthlyScheduleData >>
    /\ UNCHANGED << userTimeZone, profileTimeZone, shareLink, shareVars, scheduleListeners >>

\* As handleDeleteActivity with the entries of the activity deleted along with it.
handleDeleteActivity_Cascade(id, deleted) ==
    /\ \E i \in 1..Len(activityItems) : activityItems[i].id = id
    /\ IF deleted
       THEN /\ activities' = SelectSeq(activities, LAMBDA a : a.id # id)
            /\ schedules' = { d \in schedules : d.activityId # id }
            /\ pending' = (pending \/ schedules' # schedules)
            /\ UNCHANGED error
       ELSE error' = ErrDeleteActivityFailed /\ UNCHANGED << activities, schedules, pending >>
    /\ UNCHANGED << tz, activityItems, newScheduleActivityId,
                    newScheduleRecurrenceType, newScheduleRecurrenceDays, currentMonth,
                    selectedDate, scheduleEntries, monthlyScheduleData >>
    /\ UNCHANGED << userTimeZone, profileTimeZone, shareLink, shareVars, scheduleListeners >>

\* handleDeleteActivity(id), from the Delete button of a listed activity.
handleDeleteActivity(id, deleted) ==
    /\ \E i \in 1..Len(activityItems) : activityItems[i].id = id
    /\ IF deleted
       THEN /\ activities' = SelectSeq(activities, LAMBDA a : a.id # id)
            /\ UNCHANGED error
       ELSE error' = ErrDeleteActivityFailed /\ UNCHANGED activities
    /\ UNCHANGED << tz, activityItems, schedules, newScheduleActivityId,
                    newScheduleRecurrenceType, newScheduleRecurrenceDays, currentMonth,
                    selectedDate, pending, scheduleEntries, monthlyScheduleData >>
    /\ UNCHANGED << userTimeZone, profileTimeZone, shareLink, shareVars, scheduleListeners >>

\* As handleTimeZoneChange with the selected date moved to midnight of the new zone,
\* which sets up the schedule listener again.
handleTimeZoneChange_Reanchor(newTimeZone, updated) ==
    /\ userTimeZone' = newTimeZone
    /\ selectedDate' = 24 * LocalDay(selectedDate) - ZoneOffset(newTimeZone)
    /\ scheduleListeners' = ScheduleEffect(selectedDate', currentMonth)
    /\ pending' = TRUE
    /\ IF updated
       THEN profileTimeZone' = newTimeZone /\ UNCHANGED error
       ELSE error' = ErrTimeZoneFailed /\ UNCHANGED profileTimeZone
    /\ UNCHANGED << tz, activityItems, schedules, newScheduleActivityId,
                    newScheduleRecurrenceType, newScheduleRecurrenceDays, currentMonth,
                    scheduleEntries, monthlyScheduleData >>
    /\ UNCHANGED << activities, shareLink, shareVars >>

\* handleTimeZoneChange: the preference is set, then written to the profile.
handleTimeZoneChange(newTimeZone, updated) ==
    /\ userTimeZone' = newTimeZone
    /\ IF updated
       THEN profileTimeZone' = newTimeZone /\ UNCHANGED error
       ELSE error' = ErrTimeZoneFailed /\ UNCHANGED profileTimeZone
    /\ UNCHANGED << tz, activityItems, schedules, newScheduleActivityId,
                    newScheduleRecurrenceType, newScheduleRecurrenceDays, currentMonth,
                    selectedDate, pending, scheduleEntries, monthlyScheduleData >>
    /\ UNCHANGED << activities, shareLink, shareVars, scheduleListeners >>

\* generateShareLink: the owner's identifier and the selected date's string.
generateShareLink ==
    /\ shareLink' = << [userId |-> <<OwnerId>>, date |-> <<ToISODate(selectedDate)>>] >>
    /\ UNCHANGED << appVars, activities, userTimeZone, profileTimeZone, shareVars, scheduleListeners >>

\* ------------------------------------------------------------- share page
\* The filter of the share page's callback on one entry.
MatchesSharedDate(entry, date) ==
    LET selectedDateOnly == LocalMidnight(LocalDay(date))
    IN  /\ (entry.recurrenceStartDate = <<>>
            \/ selectedDateOnly >= ParseDate(entry.recurrenceStartDate[1]))
        /\ (entry.recurrenceEndDate = <<>>
            \/ selectedDateOnly <= ParseDate(entry.recurrenceEndDate[1]))
        /\ \/ (entry.recurrenceType = "none" /\ entry.date = ToISODate(date))
           \/ entry.recurrenceType = "daily"
           \/ (entry.recurrenceType = "weekly"
               /\ "recurrenceDays" \in DOMAIN entry
               /\ Includes(entry.recurrenceDays, GetDay(date)))

\* filteredEntries: allEntries.filter(...).sort(...)
FilteredEntries(allEntries, date) ==
    SortByStart(FilterSeq(allEntries,
        { e \in { allEntries[i] : i \in 1..Len(allEntries) } : MatchesSharedDate(e, date) }))

\* As LinkIncomplete without the test of the owner identifier.
LinkIncomplete_DateOnly(search) == search.date = <<>>

\* !userIdFromUrl || !dateFromUrl
LinkIncomplete(search) == search.userId = <<>> \/ search.date = <<>>

\* The share page is opened on a URL with this query; its first effect reads the two
\* parameters.
OpenSharePage(search) ==
    /\ locationSearch = <<>>
    /\ locationSearch' = <<search>>
    /\ shareMounted' = TRUE
    /\ IF LinkIncomplete(search)
       THEN /\ shareError' = ErrInvalidShareLink
            /\ loadingShare' = FALSE
            /\ UNCHANGED << sharedUserId, sharedDate >>
       ELSE /\ sharedUserId' = search.userId
            /\ sharedDate' = << ParseDate(search.date[1]) >>
            /\ UNCHANGED << shareError, loadingShare >>
    /\ UNCHANGED << appVars, ownerVars, scheduleListeners, sharedUserTimeZone, sharedScheduleEntries,
                    shareListening, sharePending >>

\* fetchSharedData, run by the second effect once user and date are set: the profile
\* is read, then the listener is set up; loaded tells whether getDoc succeeds.
fetchSharedData(loaded) ==
    /\ shareMounted
    /\ sharedUserId # <<>>
    /\ sharedDate # <<>>
    /\ ~ shareListening
    /\ shareError = NoError
    /\ IF loaded
       THEN /\ loadingShare' = TRUE
            /\ sharedUserTimeZone' = profileTimeZone
            /\ shareListening' = TRUE
            /\ sharePending' = TRUE
            /\ UNCHANGED shareError
       ELSE /\ shareError' = ErrSharedUserData
            /\ loadingShare' = FALSE
            /\ UNCHANGED << sharedUserTimeZone, shareListening, sharePending >>
    /\ UNCHANGED << appVars, ownerVars, scheduleListeners, locationSearch, sharedUserId, sharedDate,
                    sharedScheduleEntries, shareMounted >>

\* The share page's listener callback on a snapshot whose documents come in the
\* order allEntries.  React drops the state updates of a component that is no
\* longer mounted.
SharedSnapshot(allEntries) ==
    /\ sharePending
    /\ sharePending' = FALSE
    /\ IF shareMounted
       THEN /\ sharedScheduleEntries' = FilteredEntries(allEntries, sharedDate[1])
            /\ loadingShare' = FALSE
       ELSE UNCHANGED << sharedScheduleEntries, loadingShare >>
    /\ UNCHANGED << appVars, ownerVars, scheduleListeners, locationSearch, sharedUserId, sharedDate,
                    sharedUserTimeZone, shareError, shareListening, shareMounted >>

\* ShareView is unmounted and React runs the cleanups its effects returned.  The
\* fetch effect calls fetchSharedData() and returns nothing: () => unsubscribe() is
\* the result of the async function, which nobody reads, so no listener is
\* unsubscribed.
UnmountShareView ==
    /\ shareMounted
    /\ shareMounted' = FALSE
    /\ UNCHANGED << appVars, ownerVars, scheduleListeners, locationSearch, sharedUserId, sharedDate,
                    sharedUserTimeZone, sharedScheduleEntries, loadingShare, shareError,
                    shareListening, sharePending >>

\* ------------------------------------------------------------- specifications
\* The signed-in owner opens the page: empty form, empty lists, the listeners set up.
Init ==
    /\ tz \in TzOffsets
    /\ activityItems = <<>>
    /\ schedules = {}
    /\ newScheduleActivityId = ""
    /\ newScheduleRecurrenceType = "none"
    /\ newScheduleRecurrenceDays = <<>>
    /\ currentMonth = Now
    /\ selectedDate = Now
    /\ pending = TRUE
    /\ scheduleEntries = <<>>
    /\ monthlyScheduleData = EmptyMap
    /\ error = NoError
    /\ activities = StoredActivities
    /\ userTimeZone = BrowserTimeZone
    /\ profileTimeZone = BrowserTimeZone
    /\ shareLink = <<>>
    /\ locationSearch = <<>>
    /\ sharedUserId = <<>>
    /\ sharedDate = <<>>
    /\ sharedUserTimeZone = "UTC"
    /\ sharedScheduleEntries = <<>>
    /\ loadingShare = TRUE
    /\ shareError = NoError
    /\ shareListening = FALSE
    /\ sharePending = FALSE
    /\ shareMounted = FALSE
    /\ scheduleListeners = { Closure(Now, Now) }

\* Both pages before anything is loaded: empty form, empty lists, no link, the
\* listeners of the owner's page set up.
PageOpened ==
    /\ activityItems = <<>>
    /\ newScheduleActivityId = ""
    /\ newScheduleRecurrenceType = "none"
    /\ newScheduleRecurrenceDays = <<>>
    /\ currentMonth = Now
    /\ selectedDate = Now
    /\ pending = TRUE
    /\ scheduleEntries = <<>>
    /\ monthlyScheduleData = EmptyMap
    /\ error = NoError
    /\ userTimeZone = BrowserTimeZone
    /\ profileTimeZone = BrowserTimeZone
    /\ shareLink = <<>>
    /\ locationSearch = <<>>
    /\ sharedUserId = <<>>
    /\ sharedDate = <<>>
    /\ sharedUserTimeZone = "UTC"
    /\ sharedScheduleEntries = <<>>
    /\ loadingShare = TRUE
    /\ shareError = NoError
    /\ shareListening = FALSE
    /\ sharePending = FALSE
    /\ shareMounted = FALSE
    /\ scheduleListeners = { Closure(Now, Now) }

\* The Add button on the form as it stands, with the typed times and dates.
AddEntry ==
    /\ Cardinality(schedules) < MaxFormEntries
    /\ \E startTime \in StartTimeInputs, endTime \in EndTimeInputs,
          recStart \in RecurrenceStartInputs, recEnd \in RecurrenceEndInputs,
          id \in FormEntryIds, stored \in BOOLEAN :
            handleAddScheduleEntry(CurrentForm(startTime, endTime, recStart, recEnd),
                                   id, stored)

\* The Delete button of a listed entry; deleteDoc may fail.
DeleteEntry == \E id \in FormEntryIds, deleted \in BOOLEAN : handleDeleteScheduleEntry(id, deleted)

\* The store delivers the current documents in some order.
DeliverSnapshot == \E allEntries \in SnapshotOrders(schedules) : ScheduleSnapshot(allEntries)

\* The owner acts on a page that shows the snapshot of the last change: the
\* listener's callback runs before the next click.
OwnerAtForm ==
    \/ \E type \in {"none", "daily", "weekly"} : SelectRecurrenceType(type)
    \/ \E dayIndex \in WeekdayInputs : handleRecurrenceDayChange(dayIndex)
    \/ AddEntry
    \/ DeleteEntry
    \/ DismissError

\* The owner at the form: picks a recurrence, toggles weekdays, types and submits;
\* writes may fail.
NextForm ==
    \/ ActivitySnapshot
    \/ DeliverSnapshot
    \/ (~ pending /\ OwnerAtForm)

SpecForm == Init /\ [][NextForm]_vars

\* Forms the owner fills in completely before pressing Add in a calendar run.
FilledForms ==
    { [ activityId |-> a, recurrenceType |-> r[1], recurrenceDays |-> r[2],
        startTime |-> <<9>>, endTime |-> <<10>>,
        recurrenceStartDate |-> <<4>>, recurrenceEndDate |-> e ] :
        a \in {"a1", "a2"},
        r \in { <<"none", <<>> >>, <<"daily", <<>> >>, <<"weekly", <<0>> >> },
        e \in { <<>>, <<9>> } }

\* The owner fills in the form and presses Add: the form's setters followed by
\* handleAddScheduleEntry, which resets the form when the entry is stored.
FillAndAdd ==
    /\ Cardinality(schedules) < MaxEntries
    /\ Len(activityItems) > 0
    /\ newScheduleActivityId = activityItems[1].id
    /\ newScheduleRecurrenceType = "none"
    /\ newScheduleRecurrenceDays = <<>>
    /\ \E form \in FilledForms, id \in EntryIds :
          /\ AddValidationError(form) = NoError
          /\ handleAddScheduleEntry(form, id, TRUE)

OwnerAtCalendar ==
    \/ FillAndAdd
    \/ \E id \in EntryIds : handleDeleteScheduleEntry(id, TRUE)
    \/ \E i \in ClickDays : ClickDay(i)
    \/ \E offset \in {-1, 1} : changeMonth(offset)

\* The owner at the calendar: adds and deletes entries, clicks days, changes month.
Next ==
    \/ ActivitySnapshot
    \/ DeliverSnapshot
    \/ (~ pending /\ OwnerAtCalendar)

Spec == Init /\ [][Next]_vars

\* The Add button on the form with the times and the start date it shows by default
\* (09:00, 10:00, the day the page was opened, no end date).
AddOwnerEntry ==
    /\ Cardinality(schedules) < MaxOwnerEntries
    /\ \E id \in OwnerEntryIds :
          handleAddScheduleEntry(CurrentForm(<<9>>, <<10>>, <<ToISODate(Now)>>, <<>>), id, TRUE)

\* The page is opened by an owner who has defined one activity so far.
InitOwner ==
    /\ tz \in TzOffsets
    /\ schedules = {}
    /\ activities = SubSeq(StoredActivities, 1, 1)
    /\ PageOpened

OwnerAtPage ==
    \/ \E id \in {"a1"} \cup NewActivityIds : SelectActivity(id)
    \/ AddOwnerEntry
    \/ \E id \in OwnerEntryIds : handleDeleteScheduleEntry(id, TRUE)
    \/ \E input \in NewActivityInputs, id \in NewActivityIds :
          handleAddActivity(input.name, input.color, id, TRUE)
    \/ \E id \in {"a1"} \cup NewActivityIds : handleDeleteActivity(id, TRUE)
    \/ \E zone \in TimeZoneInputs : handleTimeZoneChange(zone, TRUE)
    \/ \E i \in OwnerClickDays : ClickDay(i)
    \/ \E offset \in {-1, 1} : changeMonth(offset)

\* The owner on the whole page: activities, time zone, entries and the calendar; the
\* callbacks of both listeners run before the next click.
NextOwner ==
    \/ ActivitySnapshot
    \/ DeliverSnapshot
    \/ (~ pending /\ activityItems = activities /\ OwnerAtPage)

SpecOwner == InitOwner /\ [][NextOwner]_vars

\* Documents in the owner's collection when the page is opened, written in earlier
\* sessions by the app or by another client of the store: a one-time entry on
\* 2024-03-10; a one-time entry on 2024-03-10 that carries a window of 21..26 March;
\* a weekly document without its recurrenceDays field; a weekly entry on Sundays from
\* 1 March; a daily entry from 5 March.
StoredRecords ==
    { [ id |-> 1, date |-> 9, startDateTimeUTC |-> 225, endDateTimeUTC |-> 226,
        activityId |-> "a1", activityName |-> "Work", activityColor |-> "red",
        recurrenceType |-> "none", recurrenceDays |-> <<>>,
        recurrenceStartDate |-> <<>>, recurrenceEndDate |-> <<>> ],
      [ id |-> 2, date |-> 9, startDateTimeUTC |-> 226, endDateTimeUTC |-> 227,
        activityId |-> "a2", activityName |-> "Gym", activityColor |-> "blue",
        recurrenceType |-> "none", recurrenceDays |-> <<>>,
        recurrenceStartDate |-> <<20>>, recurrenceEndDate |-> <<25>> ],
      [ id |-> 3, date |-> 0, startDateTimeUTC |-> 9, endDateTimeUTC |-> 10,
        activityId |-> "a1", activityName |-> "Work", activityColor |-> "red",
        recurrenceType |-> "weekly",
        recurrenceStartDate |-> <<0>>, recurrenceEndDate |-> <<>> ],
      [ id |-> 4, date |-> 0, startDateTimeUTC |-> 11, endDateTimeUTC |-> 12,
        activityId |-> "a2", activityName |-> "Gym", activityColor |-> "blue",
        recurrenceType |-> "weekly", recurrenceDays |-> <<0>>,
        recurrenceStartDate |-> <<0>>, recurrenceEndDate |-> <<>> ],
      [ id |-> 5, date |-> 4, startDateTimeUTC |-> 104, endDateTimeUTC |-> 105,
        activityId |-> "a1", activityName |-> "Work", activityColor |-> "red",
        recurrenceType |-> "daily", recurrenceDays |-> <<>>,
        recurrenceStartDate |-> <<4>>, recurrenceEndDate |-> <<>> ] }

\* The page is opened on a collection that holds some of these documents.
InitShare ==
    /\ tz \in TzOffsets
    /\ schedules \in { S \in SUBSET StoredRecords : Cardinality(S) <= MaxSharedEntries }
    /\ activities = StoredActivities
    /\ PageOpened

\* The queries of the URLs the share page is opened on: the generated link, a link
\* without its userId, a link without its date.
ShareSearches ==
    { shareLink[i] : i \in 1..Len(shareLink) }
        \cup { [userId |-> <<>>, date |-> <<9>>], [userId |-> <<OwnerId>>, date |-> <<>>] }

\* The store delivers the current documents to the share page in some order.
DeliverSharedSnapshot == \E allEntries \in SnapshotOrders(schedules) : SharedSnapshot(allEntries)

OwnerSharing ==
    \/ \E i \in ClickDays : ClickDay(i)
    \/ generateShareLink
    \/ \E id \in { d.id : d \in StoredRecords } : handleDeleteScheduleEntry(id, TRUE)

\* The owner clicks days, deletes entries and generates the link; the link is opened
\* in a browser of the same time zone.
NextShare ==
    \/ ActivitySnapshot
    \/ DeliverSnapshot
    \/ (~ pending /\ OwnerSharing)
    \/ \E search \in ShareSearches : OpenSharePage(search)
    \/ \E loaded \in BOOLEAN : fetchSharedData(loaded)
    \/ DeliverSharedSnapshot
    \/ UnmountShareView

SpecShare == InitShare /\ [][NextShare]_vars

\* Documents in the owner's collection when the page is opened, written in earlier
\* sessions by the app or by another client of the store: a daily entry with the
\* window 1..31 March; a weekly entry on Mondays and Wednesdays without window
\* bounds; one-time entries on 2024-03-10 at 09:00Z and at 08:00Z; a daily entry
\* placed on 5 March at 10:00Z, from 5 March on.
ScenarioRecords ==
    { [ id |-> 1, date |-> 0, startDateTimeUTC |-> 9, endDateTimeUTC |-> 10,
        activityId |-> "a1", activityName |-> "Work", activityColor |-> "red",
        recurrenceType |-> "daily", recurrenceDays |-> <<>>,
        recurrenceStartDate |-> <<0>>, recurrenceEndDate |-> <<30>> ],
      [ id |-> 2, date |-> 0, startDateTimeUTC |-> 11, endDateTimeUTC |-> 12,
        activityId |-> "a2", activityName |-> "Gym", activityColor |-> "blue",
        recurrenceType |-> "weekly", recurrenceDays |-> <<1, 3>>,
        recurrenceStartDate |-> <<>>, recurrenceEndDate |-> <<>> ],
      [ id |-> 3, date |-> 9, startDateTimeUTC |-> 225, endDateTimeUTC |-> 226,
        activityId |-> "a1", activityName |-> "Work", activityColor |-> "red",
        recurrenceType |-> "none", recurrenceDays |-> <<>>,
        recurrenceStartDate |-> <<>>, recurrenceEndDate |-> <<>> ],
      [ id |-> 4, date |-> 9, startDateTimeUTC |-> 224, endDateTimeUTC |-> 225,
        activityId |-> "a2", activityName |-> "Gym", activityColor |-> "blue",
        recurrenceType |-> "none", recurrenceDays |-> <<>>,
        recurrenceStartDate |-> <<>>, recurrenceEndDate |-> <<>> ],
      [ id |-> 5, date |-> 4, startDateTimeUTC |-> 106, endDateTimeUTC |-> 107,
        activityId |-> "a2", activityName |-> "Gym", activityColor |-> "blue",
        recurrenceType |-> "daily", recurrenceDays |-> <<>>,
        recurrenceStartDate |-> <<4>>, recurrenceEndDate |-> <<>> ] }

\* The page is opened on a collection that holds some of these documents.
InitScenario ==
    /\ tz \in TzOffsets
    /\ schedules \in { S \in SUBSET ScenarioRecords : Cardinality(S) <= MaxScenarioEntries }
    /\ activities = StoredActivities
    /\ PageOpened

OwnerAtScenario ==
    \/ \E i \in ScenarioClickDays : ClickDay(i)
    \/ \E offset \in {-1, 1} : changeMonth(offset)
    \/ \E id \in { d.id : d \in ScenarioRecords } : handleDeleteScheduleEntry(id, TRUE)

\* The owner looks at the stored entries: clicks days, changes month, deletes entries.
NextScenario ==
    \/ ActivitySnapshot
    \/ DeliverSnapshot
    \/ (~ pending /\ OwnerAtScenario)

SpecScenario == InitScenario /\ [][NextScenario]_vars

\* ------------------------------------------------------------- the matcher
\* The calendar days the owner reaches: the months 0..MaxMonth.
CalendarDays == MonthFirstDay(0)..(MonthFirstDay(MaxMonth + 1) - 1)

\* The days of the displayed month.
DisplayedMonthDays ==
    MonthFirstDay(GetMonth(currentMonth))..(MonthFirstDay(GetMonth(currentMonth) + 1) - 1)

\* The day-view test on calendar day d: the Date the grid makes for d, new Date(y, m, d).
MatchesOnDay(entry, d) == MatchesSelectedDate(entry, LocalMidnight(d))

\* d lies in the inclusive window of the entry, an absent bound being no bound.
InWindow(entry, d) ==
    /\ (entry.recurrenceStartDate = <<>> \/ entry.recurrenceStartDate[1] <= d)
    /\ (entry.recurrenceEndDate = <<>> \/ d <= entry.recurrenceEndDate[1])

\* Weekday of calendar day d, 0 = Sunday.
WeekdayOf(d) == (d + 5) % 7

\* C1: an entry that does not repeat matches calendar day d exactly when d is its
\* anchor date, entry.date.
C1_NoneMatchesAnchorOnly ==
    \A e \in schedules : e.recurrenceType = "none" =>
        \A d \in CalendarDays : MatchesOnDay(e, d) <=> (d = e.date)

\* C2: a daily entry matches calendar day d exactly when d lies in its inclusive
\* window; the boundary dates themselves match.
C2_DailyMatchesWindow ==
    \A e \in schedules : e.recurrenceType = "daily" =>
        \A d \in CalendarDays : MatchesOnDay(e, d) <=> InWindow(e, d)

\* C3: a weekly entry matches calendar day d exactly when d lies in its inclusive
\* window and the weekday of d is one of its days.
C3_WeeklyMatchesWindowAndDay ==
    \A e \in schedules : e.recurrenceType = "weekly" =>
        \A d \in CalendarDays :
            MatchesOnDay(e, d) <=> (InWindow(e, d) /\ Includes(e.recurrenceDays, WeekdayOf(d)))

\* C4: the day list is sorted non-decreasing by start instant, and entries with the
\* same start instant stand in ascending order of identifier.
C4_SortedWithIdTieBreak ==
    \A i, j \in 1..Len(scheduleEntries) : i < j =>
        \/ scheduleEntries[i].startDateTimeUTC < scheduleEntries[j].startDateTimeUTC
        \/ /\ scheduleEntries[i].startDateTimeUTC = scheduleEntries[j].startDateTimeUTC
           /\ scheduleEntries[i].id < scheduleEntries[j].id

\* C5: the day list of the selected date is the same for every order in which the
\* store delivers the same documents.
C5_OrderIndependent ==
    \A o1, o2 \in SnapshotOrders(schedules) :
        EntriesForSelectedDate(o1, selectedDate) = EntriesForSelectedDate(o2, selectedDate)

\* C6: in a browser on UTC, once the snapshot is processed, the keys of the month
\* indicator map are exactly the days of the displayed month on which an entry
\* matches.
C6_KeysAreMatchingDays ==
    (tz = 0 /\ ~ pending) =>
        DOMAIN monthlyScheduleData =
            { d \in DisplayedMonthDays : \E e \in schedules : MatchesOnDay(e, d) }

\* Color of the last entry of allEntries matching day d.
LastMatchingColor(allEntries, d) ==
    allEntries[CHOOSE i \in 1..Len(allEntries) :
                 /\ MatchesOnDay(allEntries[i], d)
                 /\ \A j \in (i + 1)..Len(allEntries) : ~ MatchesOnDay(allEntries[j], d)].activityColor

\* C7: in a browser on UTC, for every delivery order, a day of the displayed month
\* that the indicator map holds and on which an entry matches has the color of the
\* last matching entry in that order.
C7_LastMatchingEntryWins ==
    tz = 0 =>
        \A allEntries \in SnapshotOrders(schedules) :
            LET map == DatesWithActivities(allEntries, currentMonth, EmptyMap)
            IN  \A d \in (DOMAIN map) \cap DisplayedMonthDays :
                    (\E e \in schedules : MatchesOnDay(e, d)) =>
                        map[d] = LastMatchingColor(allEntries, d)

\* ------------------------------------------------------------- creation
\* The messages of the checks that precede the write.
ValidationErrors ==
    { ErrMissing, ErrEndTime, ErrNoStart, ErrEndBeforeStart, ErrNoDays, ErrNoActivity }

\* This step is handleAddScheduleEntry on the form with these typed values.
AddStep(startTime, endTime, recStart, recEnd) ==
    \E id \in FormEntryIds, stored \in BOOLEAN :
        handleAddScheduleEntry(CurrentForm(startTime, endTime, recStart, recEnd), id, stored)

\* C8: an attempt whose start time is not before its end time ends with the error
\* 'End time must be after start time.' and leaves the schedule store as it is.
C8_EndNotAfterStartRejected ==
    [][ \A startTime \in StartTimeInputs, endTime \in EndTimeInputs,
           recStart \in RecurrenceStartInputs, recEnd \in RecurrenceEndInputs :
          ( /\ startTime # <<>>
            /\ endTime # <<>>
            /\ startTime[1] >= endTime[1]
            /\ AddStep(startTime, endTime, recStart, recEnd) )
          => (schedules' = schedules /\ error' = ErrEndTime) ]_vars

\* An attempt was rejected for its times and nothing is stored.
C8_Witness == error = ErrEndTime /\ schedules = {}

\* C9: an attempt with recurrence 'daily' or 'weekly' and no recurrence start date
\* ends with a validation error and leaves the schedule store as it is.
C9_MissingStartRejected ==
    [][ \A startTime \in StartTimeInputs, endTime \in EndTimeInputs,
           recEnd \in RecurrenceEndInputs :
          ( /\ newScheduleRecurrenceType \in {"daily", "weekly"}
            /\ AddStep(startTime, endTime, <<>>, recEnd) )
          => (schedules' = schedules /\ error' \in ValidationErrors) ]_vars

\* An attempt on a repeating form was rejected for its missing start date and
\* nothing is stored.
C9_Witness ==
    /\ error = ErrNoStart
    /\ newScheduleRecurrenceType \in {"daily", "weekly"}
    /\ schedules = {}

\* The form passes every check but the one on the order of the window's dates.
PassesOtherChecks(startTime, endTime) ==
    /\ startTime # <<>>
    /\ endTime # <<>>
    /\ startTime[1] < endTime[1]
    /\ (newScheduleRecurrenceType = "weekly" => Len(newScheduleRecurrenceDays) > 0)
    /\ \E i \in 1..Len(activityItems) : activityItems[i].id = newScheduleActivityId

\* C10: an attempt on a repeating form whose recurrence start date is later than its
\* end date ends with a validation error and leaves the store as it is; with the two
\* dates equal, and the other checks passed, no validation error is raised and the
\* entry is written when the store accepts the write.
C10_WindowOrderChecked ==
    [][ \A startTime \in StartTimeInputs, endTime \in EndTimeInputs,
           recStart \in RecurrenceStartInputs \ {<<>>},
           recEnd \in RecurrenceEndInputs \ {<<>>} :
          \A id \in FormEntryIds, stored \in BOOLEAN :
            ( /\ newScheduleRecurrenceType # "none"
              /\ handleAddScheduleEntry(
                     CurrentForm(startTime, endTime, recStart, recEnd), id, stored) )
            => /\ recStart[1] > recEnd[1] =>
                    (schedules' = schedules /\ error' \in ValidationErrors)
               /\ (recStart[1] = recEnd[1] /\ PassesOtherChecks(startTime, endTime)) =>
                    /\ error' = (IF stored THEN error ELSE ErrAddFailed)
                    /\ stored =>
                         \E d \in schedules' \ schedules :
                            /\ d.id = id
                            /\ d.recurrenceStartDate = recStart
                            /\ d.recurrenceEndDate = recEnd ]_vars

\* A window with start later than end was rejected, and afterwards a one-day window
\* was stored (a stored entry leaves the error message as it is).
C10_Witness ==
    /\ error = ErrEndBeforeStart
    /\ \E d \in schedules :
          d.recurrenceStartDate # <<>> /\ d.recurrenceStartDate = d.recurrenceEndDate

\* C11: an attempt on a form with recurrence 'weekly' and no weekday selected,
\* whatever toggles and changes of the recurrence type led to that form, ends with a
\* validation error and leaves the schedule store as it is.
C11_WeeklyEmptyDaysRejected ==
    [][ \A startTime \in StartTimeInputs, endTime \in EndTimeInputs,
           recStart \in RecurrenceStartInputs, recEnd \in RecurrenceEndInputs :
          ( /\ newScheduleRecurrenceType = "weekly"
            /\ newScheduleRecurrenceDays = <<>>
            /\ AddStep(startTime, endTime, recStart, recEnd) )
          => (schedules' = schedules /\ error' \in ValidationErrors) ]_vars

\* An attempt on a weekly form without weekdays was rejected for that reason and
\* nothing is stored.
C11_Witness ==
    /\ error = ErrNoDays
    /\ newScheduleRecurrenceType = "weekly"
    /\ newScheduleRecurrenceDays = <<>>
    /\ schedules = {}

\* The fields of a schedule document.
ScheduleFields ==
    { "id", "date", "startDateTimeUTC", "endDateTimeUTC", "activityId", "activityName",
      "activityColor", "recurrenceType", "recurrenceDays", "recurrenceStartDate",
      "recurrenceEndDate" }

\* The creation constraints on a stored document.
SatisfiesCreationConstraints(d) ==
    /\ DOMAIN d = ScheduleFields
    /\ d.startDateTimeUTC < d.endDateTimeUTC
    /\ (d.recurrenceType # "none" => d.recurrenceStartDate # <<>>)
    /\ ((d.recurrenceStartDate # <<>> /\ d.recurrenceEndDate # <<>>)
            => d.recurrenceStartDate[1] <= d.recurrenceEndDate[1])
    /\ (d.recurrenceType = "weekly" => Len(d.recurrenceDays) > 0)

\* C13: in every state every stored document has all its fields and satisfies the
\* creation constraints (start before end, a repeating entry has a start date, the
\* window's dates are in order, a weekly entry has a weekday), and every step adds at
\* most one document to the store.
C13_StoreHoldsValidEntries ==
    /\ [](\A d \in schedules : SatisfiesCreationConstraints(d))
    /\ [][Cardinality(schedules' \ schedules) <= 1]_vars

\* An attempt was rejected and afterwards a weekly entry with a start date was stored.
C13_Witness ==
    /\ error \in ValidationErrors
    /\ \E d \in schedules :
          d.recurrenceType = "weekly" /\ d.recurrenceStartDate # <<>> /\ d.recurrenceEndDate # <<>>

\* ------------------------------------------------------------- activities and entries
\* The activity set holds an activity with this identifier.
ActivityPresent(id) == \E i \in 1..Len(activities) : activities[i].id = id

\* This step is handleAddScheduleEntry on the form with the default times and dates.
AddOwnerStep(id) ==
    handleAddScheduleEntry(CurrentForm(<<9>>, <<10>>, <<ToISODate(Now)>>, <<>>), id, TRUE)

\* C12: an attempt that passes the other checks stores an entry exactly when the
\* form's activity identifier is in the owner's activity set at that moment; the stored
\* entry carries the name and color that activity has then; when the identifier is
\* not in the set (the selected activity was deleted) the attempt ends with 'Selected
\* activity not found.' and nothing is stored.
C12_ActivityMustExist ==
    [][ \A id \in OwnerEntryIds :
          AddOwnerStep(id) =>
            /\ ActivityPresent(newScheduleActivityId) =>
                  \E d \in schedules' \ schedules :
                     /\ schedules' = schedules \cup {d}
                     /\ d.id = id
                     /\ d.activityId = newScheduleActivityId
                     /\ \E i \in 1..Len(activities) :
                           /\ activities[i].id = d.activityId
                           /\ activities[i].name = d.activityName
                           /\ activities[i].color = d.activityColor
            /\ ~ ActivityPresent(newScheduleActivityId) =>
                  (schedules' = schedules /\ error' = ErrNoActivity) ]_vars

\* An attempt on a deleted activity was refused, and an entry of an activity that was
\* not the form's default was stored.
C12_Witness ==
    /\ error = ErrNoActivity
    /\ \E d \in schedules : d.activityId # "a1" /\ ActivityPresent(d.activityId)

\* C16: in every step, whatever the operation, a document that stays in the store
\* keeps every field, and the store changes only by one new document with a fresh
\* identifier or by the removal of the document of one identifier.
C16_EntriesNeverModified ==
    [][ /\ \A d \in schedules' : (\E e \in schedules : e.id = d.id) => d \in schedules
        /\ \/ schedules' = schedules
           \/ \E d \in schedules' \ schedules :
                 /\ schedules' = schedules \cup {d}
                 /\ \A e \in schedules : e.id # d.id
           \/ \E id \in { e.id : e \in schedules } :
                 schedules' = { e \in schedules : e.id # id } ]_vars

\* An entry is in the store after its activity was deleted, the time zone changed and
\* the calendar moved to another month.
C16_Witness ==
    /\ \E d \in schedules : ~ ActivityPresent(d.activityId)
    /\ userTimeZone # BrowserTimeZone
    /\ GetMonth(currentMonth) # GetMonth(Now)

\* The entry is listed for the selected date.
Listed(e) == \E i \in 1..Len(scheduleEntries) : scheduleEntries[i] = e

\* C17: deleting an activity removes that activity from the activity set and leaves the
\* schedule store, the day list and the indicator map as they are; and once the
\* snapshot is processed an entry whose activity is deleted is listed with its stored
\* name and color when it matches the selected date, and the dates it marks in the
\* displayed month are keys of the map, with its color unless another entry marks them.
C17_DeleteActivityKeepsEntries ==
    /\ [][ \A id \in {"a1"} \cup NewActivityIds :
             handleDeleteActivity(id, TRUE) =>
               /\ activities' = SelectSeq(activities, LAMBDA a : a.id # id)
               /\ schedules' = schedules
               /\ scheduleEntries' = scheduleEntries
               /\ monthlyScheduleData' = monthlyScheduleData ]_vars
    /\ [](~ pending =>
            \A e \in schedules : ~ ActivityPresent(e.activityId) =>
               /\ MatchesSelectedDate(e, selectedDate) => Listed(e)
               /\ \A k \in EntryDotKeys(e, currentMonth) :
                     /\ k \in DOMAIN monthlyScheduleData
                     /\ \/ monthlyScheduleData[k] = e.activityColor
                        \/ \E f \in schedules \ {e} : k \in EntryDotKeys(f, currentMonth))

\* An entry whose activity is deleted is listed and marks a day of the displayed month
\* with its color.
C17_Witness ==
    /\ ~ pending
    /\ \E e \in schedules :
          /\ ~ ActivityPresent(e.activityId)
          /\ Listed(e)
          /\ e.date \in DOMAIN monthlyScheduleData
          /\ monthlyScheduleData[e.date] = e.activityColor

\* C18: once a snapshot is processed the day list and the indicator map are what the
\* aggregation makes of the documents of the store alone, for the selected date and
\* the displayed month; and the delivery of a snapshot drops from the list every
\* entry, and from the map every date, that no document of the snapshot accounts for.
C18_SnapshotReplaces ==
    /\ [](~ pending =>
            \E allEntries \in SnapshotOrders(schedules) :
               /\ scheduleEntries = EntriesForSelectedDate(allEntries, selectedDate)
               /\ monthlyScheduleData = DatesWithActivities(allEntries, currentMonth, EmptyMap))
    /\ [][ (pending /\ ~ pending') =>
             /\ \A i \in 1..Len(scheduleEntries') : scheduleEntries'[i] \in schedules
             /\ \A k \in DOMAIN monthlyScheduleData' :
                   \E e \in schedules : k \in EntryDotKeys(e, currentMonth) ]_vars

\* The page still lists an entry and marks a date that the store no longer accounts
\* for, and the snapshot that replaces them waits for delivery.
C18_Witness ==
    /\ pending
    /\ \E i \in 1..Len(scheduleEntries) : scheduleEntries[i] \notin schedules
    /\ \E k \in DOMAIN monthlyScheduleData :
          \A e \in schedules : k \notin EntryDotKeys(e, currentMonth)

\* C19: a change of the time zone preference leaves the store, the selected date, the
\* displayed month, the day list, the indicator map and the listener as they are; and
\* once the snapshot is processed the entries of the day list and the keys of the map
\* are those the matcher gives for the store, the selected date and the displayed month
\* on the browser's clock, whatever the preference is.  The preference enters
\* formatTime only.
C19_PreferenceNotInMatching ==
    /\ [][ \A zone \in TimeZoneNames, updated \in BOOLEAN :
             handleTimeZoneChange(zone, updated) =>
               UNCHANGED << schedules, selectedDate, currentMonth, scheduleEntries,
                            monthlyScheduleData, pending >> ]_vars
    /\ [](~ pending =>
            /\ { scheduleEntries[i] : i \in 1..Len(scheduleEntries) }
                  = { e \in schedules : MatchesSelectedDate(e, selectedDate) }
            /\ DOMAIN monthlyScheduleData
                  = UNION { EntryDotKeys(e, currentMonth) : e \in schedules })

\* The preference differs from the browser's zone, an entry is listed, and its start
\* is shown at another hour than the browser's zone would show it.
C19_Witness ==
    /\ ~ pending
    /\ userTimeZone # BrowserTimeZone
    /\ DOMAIN monthlyScheduleData # {}
    /\ \E i \in 1..Len(scheduleEntries) :
          formatTime(scheduleEntries[i].startDateTimeUTC, userTimeZone)
            # formatTime(scheduleEntries[i].startDateTimeUTC, BrowserTimeZone)

\* ------------------------------------------------------------- documents of the store
\* C14: in a browser on UTC, an entry that does not repeat matches on its anchor date
\* in the owner's day view and in the share view, whatever window fields it carries.
C14_NoneIgnoresWindow ==
    tz = 0 =>
        \A e \in schedules : e.recurrenceType = "none" =>
            /\ MatchesSelectedDate(e, LocalMidnight(e.date))
            /\ MatchesSharedDate(e, ParseDate(e.date))

\* The document has every field of a schedule document.
WellFormed(e) == DOMAIN e = ScheduleFields

\* C15: once the owner's page has processed the snapshot, every well-formed document
\* that matches the selected date is in the day list and every date a well-formed
\* document marks in the displayed month is a key of the indicator map, whatever
\* malformed documents the snapshot holds besides.
C15_MalformedRecordSkipped ==
    ~ pending =>
        \A e \in schedules : WellFormed(e) =>
            /\ MatchesSelectedDate(e, selectedDate) => Listed(e)
            /\ EntryDotKeys(e, currentMonth) \subseteq DOMAIN monthlyScheduleData

\* C20: when the owner's page and the share page opened on the link generated for the
\* selected date have both processed the snapshot of a store of well-formed
\* documents, the share page lists the entries the owner's day list holds.
C20_ShareViewEqualsDayView ==
    ( /\ ~ pending
      /\ shareMounted
      /\ shareListening
      /\ ~ sharePending
      /\ locationSearch = shareLink
      /\ shareLink[1].date = << ToISODate(selectedDate) >>
      /\ \A e \in schedules : WellFormed(e) )
    => { sharedScheduleEntries[i] : i \in 1..Len(sharedScheduleEntries) }
         = { scheduleEntries[i] : i \in 1..Len(scheduleEntries) }

\* ------------------------------------------------------------- scenarios
\* The days of month m.
DaysOfMonth(m) == MonthFirstDay(m)..(MonthFirstDay(m + 1) - 1)

\* The window of the entry is exactly the first through the last day of month m.
WindowIsMonth(e, m) ==
    /\ e.recurrenceStartDate = << MonthFirstDay(m) >>
    /\ e.recurrenceEndDate = << MonthFirstDay(m + 1) - 1 >>

\* C21: when the store holds a single daily entry whose window is exactly the first
\* through the last day of a month and the snapshot is processed, the indicator map
\* of that month holds every date of the month with the entry's color, and the
\* indicator map of any other month is empty.
C21_DailyMonthWindow ==
    ~ pending =>
        \A e \in schedules, m \in 0..MaxMonth :
            (schedules = {e} /\ e.recurrenceType = "daily" /\ WindowIsMonth(e, m)) =>
                monthlyScheduleData =
                    (IF GetMonth(currentMonth) = m
                     THEN [d \in DaysOfMonth(m) |-> e.activityColor]
                     ELSE EmptyMap)

\* The weekdays of a weekly entry.
DaysOf(e) == { e.recurrenceDays[i] : i \in 1..Len(e.recurrenceDays) }

\* The dates among n consecutive calendar dates from d0 on which the day view
\* matches the entry.
MatchesInRun(e, d0, n) == { d \in d0..(d0 + n - 1) : MatchesOnDay(e, d) }

\* C22: for a weekly entry without window bounds, every run of 7 consecutive
\* calendar dates holds as many matching dates as the entry has weekdays, every run
\* of 14 twice as many, and every matching date has one of the entry's weekdays.
C22_WeeklyUnbounded ==
    \A e \in schedules :
        ( /\ e.recurrenceType = "weekly"
          /\ e.recurrenceStartDate = <<>>
          /\ e.recurrenceEndDate = <<>> ) =>
            /\ \A d0 \in CalendarDays : (d0 + 6) \in CalendarDays =>
                   Cardinality(MatchesInRun(e, d0, 7)) = Cardinality(DaysOf(e))
            /\ \A d0 \in CalendarDays : (d0 + 13) \in CalendarDays =>
                   Cardinality(MatchesInRun(e, d0, 14)) = 2 * Cardinality(DaysOf(e))
            /\ \A d \in CalendarDays : MatchesOnDay(e, d) => WeekdayOf(d) \in DaysOf(e)

\* The owner clicked Monday 4 March and the day list holds the weekly entry on
\* Mondays and Wednesdays, which has no window bounds.
C22_Witness ==
    /\ ~ pending
    /\ WeekdayOf(LocalDay(selectedDate)) = 1
    /\ \E i \in 1..Len(scheduleEntries) :
          /\ scheduleEntries[i].recurrenceType = "weekly"
          /\ scheduleEntries[i].recurrenceDays = <<1, 3>>
          /\ scheduleEntries[i].recurrenceStartDate = <<>>
          /\ scheduleEntries[i].recurrenceEndDate = <<>>

\* C23: in a browser on UTC, once the snapshot is processed with the selected date
\* in the displayed month, the selected date is a key of the indicator map exactly
\* when the day list is not empty.
C23_ListAndMapAgree ==
    ( /\ tz = 0
      /\ ~ pending
      /\ GetMonth(selectedDate) = GetMonth(currentMonth) ) =>
        (ToISODate(selectedDate) \in DOMAIN monthlyScheduleData <=> scheduleEntries # <<>>)

\* ------------------------------------------------------------- listeners
\* C24: in every state at most one schedule listener is subscribed and it closes over
\* the current selected date and month; and every step that changes the day list or
\* the indicator map sets them to what the aggregation gives for the current
\* selected date and the current month.
C24_OnlyCurrentListener ==
    /\ [](scheduleListeners \subseteq { Closure(selectedDate, currentMonth) })
    /\ [][ (scheduleEntries' # scheduleEntries \/ monthlyScheduleData' # monthlyScheduleData) =>
             \E allEntries \in SnapshotOrders(schedules) :
                /\ scheduleEntries' = EntriesForSelectedDate(allEntries, selectedDate')
                /\ monthlyScheduleData' =
                       DatesWithActivities(allEntries, currentMonth', EmptyMap) ]_vars

\* After a change of month and a click on a day, the listener of that day delivered
\* a snapshot: the list and the map show an entry of that day.
C24_Witness ==
    /\ ~ pending
    /\ GetMonth(currentMonth) # GetMonth(Now)
    /\ selectedDate # currentMonth
    /\ scheduleListeners = { Closure(selectedDate, currentMonth) }
    /\ scheduleEntries # <<>>
    /\ DOMAIN monthlyScheduleData # {}

\* ------------------------------------------------------------- order of the day list
\* The UTC time of day at which the occurrences of an entry start.
StartTimeOfDay(e) == e.startDateTimeUTC % 24

\* C25: once the snapshot is processed, of two entries of the day list the one whose
\* start time of day is earlier stands first, whatever the calendar dates of their
\* stored start instants.
C25_EarlierTimeOfDayFirst ==
    ~ pending =>
        \A i, j \in 1..Len(scheduleEntries) :
            StartTimeOfDay(scheduleEntries[i]) < StartTimeOfDay(scheduleEntries[j]) => i < j

\* ------------------------------------------------------------- keys of the indicator map
\* C26: once the snapshot is processed, every key of the indicator map is a date of
\* the displayed month on which an entry of the store matches, and its color is the
\* color of an entry that matches on that date.
C26_KeysInMonthAndMatched ==
    ~ pending =>
        \A k \in DOMAIN monthlyScheduleData :
            /\ k \in DisplayedMonthDays
            /\ \E e \in schedules :
                  MatchesOnDay(e, k) /\ monthlyScheduleData[k] = e.activityColor

\* ------------------------------------------------------------- calendar state
\* C27: in every state the selected date lies in the displayed month (same year and
\* month on the browser's clock), and a change of month makes the first day of the
\* new month the selected date.
C27_SelectedInDisplayedMonth ==
    /\ [](GetMonth(selectedDate) = GetMonth(currentMonth))
    /\ [][ \A offset \in {-1, 1} :
             changeMonth(offset) =>
               /\ GetMonth(currentMonth') = GetMonth(currentMonth) + offset
               /\ selectedDate' = LocalMidnight(MonthFirstDay(GetMonth(currentMonth'))) ]_vars

\* The owner went to another month and clicked a day there that is not the first.
C27_Witness ==
    /\ GetMonth(currentMonth) # GetMonth(Now)
    /\ GetMonth(selectedDate) = GetMonth(currentMonth)
    /\ LocalDay(selectedDate) # MonthFirstDay(GetMonth(currentMonth))

\* ------------------------------------------------------------- weekday list
\* The list a toggle of dayIndex makes of prevDays.
Toggled(prevDays, dayIndex) ==
    IF Includes(prevDays, dayIndex)
    THEN RemoveDay(prevDays, dayIndex)
    ELSE InsertDay(prevDays, dayIndex)

\* C28: in every state the selected weekday list is strictly ascending (so without
\* duplicates) and holds only indices 0..6; a toggle adds the weekday when it is
\* absent and removes it when present, leaving the other weekdays, and a second
\* toggle of the same weekday gives the list back; a change of the recurrence type to
\* another value than 'weekly' empties the list.
C28_WeekdayListSorted ==
    /\ []( /\ \A i \in 1..Len(newScheduleRecurrenceDays) :
                 newScheduleRecurrenceDays[i] \in 0..6
           /\ \A i, j \in 1..Len(newScheduleRecurrenceDays) :
                 i < j => newScheduleRecurrenceDays[i] < newScheduleRecurrenceDays[j] )
    /\ [][ \A dayIndex \in WeekdayInputs :
             handleRecurrenceDayChange(dayIndex) =>
               /\ { newScheduleRecurrenceDays'[i] : i \in 1..Len(newScheduleRecurrenceDays') }
                     = (IF Includes(newScheduleRecurrenceDays, dayIndex)
                        THEN { newScheduleRecurrenceDays[i] :
                                 i \in 1..Len(newScheduleRecurrenceDays) } \ {dayIndex}
                        ELSE { newScheduleRecurrenceDays[i] :
                                 i \in 1..Len(newScheduleRecurrenceDays) } \cup {dayIndex})
               /\ Toggled(newScheduleRecurrenceDays', dayIndex) = newScheduleRecurrenceDays ]_vars
    /\ [][ \A type \in {"none", "daily"} :
             SelectRecurrenceType(type) => newScheduleRecurrenceDays' = <<>> ]_vars

\* Tuesday was toggled before Sunday and both are selected, Sunday first.
C28_Witness ==
    /\ newScheduleRecurrenceType = "weekly"
    /\ newScheduleRecurrenceDays = <<0, 2>>

\* ------------------------------------------------------------- share page
\* C29: once ShareView is unmounted, and the cleanup of its fetch effect has run, the
\* schedule listener it subscribed is removed and no snapshot waits for its callback.
C29_ShareListenerRemoved ==
    (locationSearch # <<>> /\ ~ shareMounted) => (~ shareListening /\ ~ sharePending)

\* The share page was opened on a link without its owner identifier or its date.
OpenedIncomplete ==
    /\ locationSearch # <<>>
    /\ (locationSearch[1].userId = <<>> \/ locationSearch[1].date = <<>>)

\* C30: once the share page is opened on a link that lacks the owner identifier or
\* the date, the error is 'Invalid share link...', loading is finished, and neither
\* then nor later is the profile read or the schedule listener subscribed; on a link
\* with both parameters that error never shows.
C30_IncompleteLinkRejected ==
    /\ [](OpenedIncomplete =>
            /\ shareError = ErrInvalidShareLink
            /\ ~ loadingShare
            /\ ~ shareListening
            /\ ~ sharePending
            /\ sharedUserTimeZone = "UTC"
            /\ sharedScheduleEntries = <<>>)
    /\ [][ (\E loaded \in BOOLEAN : fetchSharedData(loaded)) => ~ OpenedIncomplete ]_vars
    /\ []((locationSearch # <<>> /\ ~ OpenedIncomplete) => shareError # ErrInvalidShareLink)

\* The page was opened on a link without its owner identifier and shows the error.
C30_Witness ==
    /\ locationSearch # <<>>
    /\ locationSearch[1].userId = <<>>
    /\ locationSearch[1].date # <<>>
    /\ shareError = ErrInvalidShareLink
    /\ ~ loadingShare

====
